---------------------------- MODULE Spec2Model ----------------------------
(***************************************************************************)
(* Model of the HeadHunter API client (src/src/hh_api.py) and of the       *)
(* DBManager data-access layer (src/src/database.py).                      *)
(*                                                                         *)
(* Strings are sequences of tokens (one-character or one-word strings), so *)
(* that formatting (f-strings) is concatenation and "contains" is a real   *)
(* sub-sequence test.  The Russian message literals of the source are      *)
(* written as ASCII tokens.  A Python dict is a function from its keys.    *)
(***************************************************************************)
EXTENDS Integers, Sequences, FiniteSets, TLC

VARIABLES
    (* HeadHunterAPI instance (base class), src/src/hh_api.py:28-34 *)
    hh_endpoint,      \* self._endpoint
    hh_params,        \* self._params
    hh_arg,           \* the endpoint argument of the last connect
    hh_request,       \* the request the HTTP layer saw in the last connect
    hh_response,      \* what the HTTP layer answered to it
    hh_outcome,       \* how the last connect ended (return value or exception)
    (* HHVacanciesAPI instance, src/src/hh_api.py:79-84 *)
    vac_endpoint,     \* self._endpoint
    vac_params,       \* self._params
    vac_vacancies,    \* self.__vacancies
    vac_pc,           \* position in get_vacancies_by_employer_id: "idle" | "loop"
    vac_args,         \* arguments of the call in progress / last call
    vac_exchanges,    \* requests of that call, in order, each with its outcome
    vac_outcome,      \* how the last call ended
    vac_prev,         \* how the call before it ended, and what it left behind
    (* HHEmployersAPI instance, src/src/hh_api.py:157-161 *)
    emp_endpoint,     \* self._endpoint
    emp_params,       \* self._params
    emp_employers,    \* self.__employers
    emp_requests,     \* requests issued by the last call, in order
    emp_response,     \* the response to the last call's request
    emp_outcome,      \* how the last call ended
    emp_args,         \* the last call: operation and argument
    (* HHEmployerAPI instance, src/src/hh_api.py:120-124 *)
    employer_endpoint,  \* self._endpoint
    employer_params,    \* self._params
    employer_employer,  \* self.__employer
    employer_arg,       \* the employer_id of the last call
    employer_prev,      \* the employer_id of the call before it
    employer_requests,  \* requests issued by the last call, in order
    employer_response,  \* the response to the last call's request
    employer_outcome,   \* how the last call ended
    (* DBManager instance, src/src/database.py:56-68, and the database *)
    db_conn,          \* self.__conn: NoConn (None) or the handle of a connection
    db_open,          \* the connections opened by the instance and not closed
    db_employers,     \* the rows of table employers
    db_vacancies,     \* the rows of table vacancies
    db_call,          \* the last call: operation, argument, faults met
    db_executed,      \* the statements the last call executed
    db_outcome,       \* how the last call ended
    (* filling_db_hh, src/main.py:24-40 *)
    load_pc,              \* where the run stands: idle, employers, vacancies
    load_employers_data,  \* employers_data of the run
    load_vacancies_data,  \* vacancies_data of the run
    load_log,             \* what the run did to the database so far, in order
    load_outcome,         \* how the last run ended
    (* a caller of the list operations of the API clients *)
    kept                  \* a result the caller holds on to: the list object it
                          \* was handed, and the contents the list had then

hh_vars  == <<hh_endpoint, hh_params, hh_arg, hh_request, hh_response, hh_outcome>>
vac_vars == <<vac_endpoint, vac_params, vac_vacancies, vac_pc, vac_args,
              vac_exchanges, vac_outcome, vac_prev>>
emp_vars == <<emp_endpoint, emp_params, emp_employers, emp_requests,
              emp_response, emp_outcome, emp_args>>
db_vars  == <<db_conn, db_open, db_employers, db_vacancies, db_call, db_executed,
              db_outcome>>
employer_vars == <<employer_endpoint, employer_params, employer_employer, employer_arg,
                   employer_prev, employer_requests, employer_response,
                   employer_outcome>>
load_vars == <<load_pc, load_employers_data, load_vacancies_data, load_log, load_outcome>>
caller_vars == <<kept>>
vars == <<hh_vars, vac_vars, emp_vars, employer_vars, db_vars, load_vars, caller_vars>>

---------------------------------------------------------------------------
(* Bounds of the model *)

\* largest max_pages argument tried
MaxPages == 3

---------------------------------------------------------------------------
(* Generic helpers: Python values *)

\* d[k] = v on a dict
DictSet(d, k, v) == [x \in (DOMAIN d) \cup {k} |-> IF x = k THEN v ELSE d[x]]

\* d.get(k, default)
DictGet(d, k, default) == IF k \in DOMAIN d THEN d[k] ELSE default

\* the empty dict {}
EmptyDict == [x \in {} |-> 0]

\* b occurs in a as a contiguous sub-sequence ("b in a" on strings)
Contains(a, b) ==
    \E i \in 0..(Len(a) - Len(b)) :
        \A j \in 1..Len(b) : a[i + j] = b[j]

\* str(n) for n >= 0, as a sequence of digit tokens
RECURSIVE Digits(_)
Digits(n) ==
    LET d == <<"0", "1", "2", "3", "4", "5", "6", "7", "8", "9">>
    IN  IF n < 10 THEN <<d[n + 1]>> ELSE Digits(n \div 10) \o <<d[(n % 10) + 1]>>

\* concatenation of a sequence of sequences, in order
RECURSIVE Flatten(_)
Flatten(ss) == IF ss = <<>> THEN <<>> ELSE Head(ss) \o Flatten(Tail(ss))

---------------------------------------------------------------------------
(* The HTTP layer: what requests.get can answer *)

\* the "items" lists tried: empty, one item, two items in both orders
ItemLists == {<<>>, <<1>>, <<2>>, <<1, 2>>, <<2, 1>>}

\* decoded JSON objects: any subset of these keys, each holding a list
BodyKeys == {"items", "error"}
DictBodies == UNION {[K -> ItemLists] : K \in SUBSET BodyKeys}

\* response.json(): an object, another JSON value, or a body that is not JSON
JsonTypes == {"dict", "str", "list", "invalid"}
JsonValues ==
    {[type |-> "dict", value |-> d] : d \in DictBodies}
        \cup {[type |-> t, value |-> EmptyDict] : t \in JsonTypes \ {"dict"}}

StatusCodes == {200, 400, 404}
Texts == {<<>>, <<"B", "a", "d">>, <<"4", "0", "4">>}
TransportMessages == {<<"Network", " ", "error">>, <<"timeout">>}

\* the JSON values tried in an error response: not JSON at all, or an object
ErrorJsonValues ==
    {[type |-> "invalid", value |-> EmptyDict],
     [type |-> "dict", value |-> [k \in {"error"} |-> <<1>>]]}

\* a response, or the RequestException raised instead of one.  The body text
\* varies in the error responses (where it is read) and the decoded payload
\* in the 200 responses (where it is read).
Responses ==
    {[raised |-> FALSE, exc_msg |-> <<>>, status_code |-> s, text |-> t, json |-> j] :
        s \in StatusCodes \ {200}, t \in Texts, j \in ErrorJsonValues}
    \cup
    {[raised |-> FALSE, exc_msg |-> <<>>, status_code |-> 200, text |-> <<"B", "a", "d">>,
      json |-> j] : j \in JsonValues}
    \cup
    {[raised |-> TRUE, exc_msg |-> m, status_code |-> 0, text |-> <<>>,
      json |-> [type |-> "invalid", value |-> EmptyDict]] : m \in TransportMessages}

\* no request has been answered yet
NoResponse == [raised |-> TRUE, exc_msg |-> <<>>, status_code |-> 0, text |-> <<>>,
               json |-> [type |-> "invalid", value |-> EmptyDict]]

---------------------------------------------------------------------------
(* Outcomes of a call: a returned value or a raised exception *)

Return(v) == [tag |-> "return", exc |-> "", message |-> <<>>, value |-> v]
Raise(e, m) == [tag |-> "raise", exc |-> e, message |-> m, value |-> EmptyDict]
NoOutcome == [tag |-> "none", exc |-> "", message |-> <<>>, value |-> EmptyDict]

---------------------------------------------------------------------------
(* HeadHunterAPI *)

base_url == <<"https://api.hh.ru">>
headers == [UserAgent |-> "HH-User-Agent"]

\* Optional[str] endpoint argument
NoneArg == [given |-> FALSE, value |-> <<>>]
Some(e) == [given |-> TRUE, value |-> e]

\* the request __connect hands to requests.get
connect_request(self_endpoint, self_params, endpoint) ==
    LET ep == IF ~endpoint.given THEN self_endpoint ELSE endpoint.value
    IN  [url |-> base_url \o ep, headers |-> headers, params |-> self_params]

\* faulty variant: the message names the status code only
status_error_message_no_text(response) ==
    <<"API error: ">> \o Digits(response.status_code)

\* the APIError message for a non-200 status
status_error_message(response) ==
    <<"API error: ">> \o Digits(response.status_code) \o <<" - ">> \o response.text

\* faulty variant: except ValueError: the transport failure is not converted
is_request_exception_value_error(exc) == exc \in {"ValueError", "JSONDecodeError"}

\* faulty variant: except Exception: every exception is converted
is_request_exception_any(exc) == TRUE

\* the except clause: which exceptions raised in the try block it converts
is_request_exception(exc) == exc \in {"RequestException", "JSONDecodeError"}

\* faulty variant: only the "items" of the body are kept
dict_copy_items_only(result) == [k \in (DOMAIN result) \cap {"items"} |-> result[k]]

\* dict(result)
dict_copy(result) == [k \in DOMAIN result |-> result[k]]

\* the try block of __connect: what it returns or raises before the except clause
connect_try(response) ==
    IF response.raised
    THEN Raise("RequestException", response.exc_msg)
    ELSE IF response.status_code # 200
    THEN Raise("APIError", status_error_message(response))
    ELSE IF response.json.type = "invalid"
    THEN Raise("JSONDecodeError", <<"Expecting value">>)
    ELSE IF response.json.type # "dict"
    THEN Raise("ValueError", <<"API returns not a dict">>)
    ELSE Return(dict_copy(response.json.value))

\* __connect / connect: the outcome for the response the HTTP layer gave
connect(response) ==
    LET r == connect_try(response)
    IN  IF r.tag = "raise" /\ is_request_exception(r.exc)
        THEN Raise("APIError", <<"Request error: ">> \o r.message)
        ELSE r

\* one connect call on the base-class instance
hh_connect(endpoint, response) ==
    /\ hh_arg' = endpoint
    /\ hh_request' = connect_request(hh_endpoint, hh_params, endpoint)
    /\ hh_response' = response
    /\ hh_outcome' = connect(response)
    /\ UNCHANGED <<hh_endpoint, hh_params>>

EndpointArgs == {NoneArg, Some(<<"/vacancies">>), Some(<<"/employers/", "1">>)}

HHConnect ==
    /\ \E endpoint \in EndpointArgs, response \in Responses :
           hh_connect(endpoint, response)
    /\ UNCHANGED <<vac_vars, emp_vars, employer_vars, db_vars, load_vars, caller_vars>>

---------------------------------------------------------------------------
(* HHVacanciesAPI *)

\* the responses tried for a page request: every "items" list, objects without
\* "items", and one failure of each kind
PageResponses ==
    {r \in Responses :
        /\ r.raised => r.exc_msg = <<"timeout">>
        /\ (~r.raised /\ r.status_code # 200) =>
               /\ r.status_code = 404
               /\ r.text = <<"B", "a", "d">>
               /\ r.json.type = "invalid"
        /\ (~r.raised /\ r.status_code = 200 /\ r.json.type = "dict") =>
               \/ DOMAIN r.json.value = {"items"}
               \/ DOMAIN r.json.value = {}
               \/ r.json.value = [k \in {"error"} |-> <<1>>]}

EmployerIds == {<<"1">>, <<"7", "8">>}
MaxPagesArgs == (-1)..MaxPages

\* an outcome that carries a list (or nothing) instead of a dict
AsListOutcome(out) == [out EXCEPT !.value = <<>>]

\* faulty variant: the list of the instance is not cleared
vacancies_call_start_no_clear(employer_id, max_pages) ==
    /\ vac_pc = "idle"
    /\ vac_params' = DictSet(DictSet(vac_params, "employer_id", employer_id), "page", 0)
    /\ vac_vacancies' = vac_vacancies
    /\ vac_pc' = "loop"
    /\ vac_args' = [employer_id |-> employer_id, max_pages |-> max_pages]
    /\ vac_exchanges' = <<>>
    /\ vac_outcome' = NoOutcome
    /\ vac_prev' = [tag |-> vac_outcome.tag, employer_id |-> vac_args.employer_id,
                    left_items |-> vac_vacancies # <<>>]
    /\ UNCHANGED vac_endpoint

\* lines 93-95: set employer_id, reset the page cursor, clear the list
vacancies_call_start(employer_id, max_pages) ==
    /\ vac_pc = "idle"
    /\ vac_params' = DictSet(DictSet(vac_params, "employer_id", employer_id), "page", 0)
    /\ vac_vacancies' = <<>>
    /\ vac_pc' = "loop"
    /\ vac_args' = [employer_id |-> employer_id, max_pages |-> max_pages]
    /\ vac_exchanges' = <<>>
    /\ vac_outcome' = NoOutcome
    /\ vac_prev' = [tag |-> vac_outcome.tag, employer_id |-> vac_args.employer_id,
                    left_items |-> vac_vacancies # <<>>]
    /\ UNCHANGED vac_endpoint

\* faulty variant: the loop runs while page <= max_pages
vacancies_loop_condition_off_by_one == DictGet(vac_params, "page", 0) <= vac_args.max_pages

\* line 96: the loop condition
vacancies_loop_condition == DictGet(vac_params, "page", 0) < vac_args.max_pages

\* faulty variant: a failed page request is tried again
vacancies_loop_body_retries(response) ==
    LET request == connect_request(vac_endpoint, vac_params, NoneArg)
        data == connect(response)
        vacancy == DictGet(data.value, "items", <<>>)
    IN  /\ vac_pc = "loop"
        /\ vacancies_loop_condition
        /\ vac_exchanges' = Append(vac_exchanges, [request |-> request, outcome |-> data])
        /\ IF data.tag = "raise"
           THEN UNCHANGED <<vac_outcome, vac_pc, vac_params, vac_vacancies>>
           ELSE IF vacancy = <<>>
           THEN /\ vac_outcome' = Return(vac_vacancies)
                /\ vac_pc' = "idle"
                /\ UNCHANGED <<vac_params, vac_vacancies>>
           ELSE /\ vac_vacancies' = vac_vacancies \o vacancy
                /\ vac_params' = [vac_params EXCEPT !["page"] = @ + 1]
                /\ UNCHANGED <<vac_outcome, vac_pc>>
        /\ UNCHANGED <<vac_endpoint, vac_args, vac_prev>>

\* lines 97-102: one iteration of the loop, with the response of its request
vacancies_loop_body(response) ==
    LET request == connect_request(vac_endpoint, vac_params, NoneArg)
        data == connect(response)
        vacancy == DictGet(data.value, "items", <<>>)
    IN  /\ vac_pc = "loop"
        /\ vacancies_loop_condition
        /\ vac_exchanges' = Append(vac_exchanges, [request |-> request, outcome |-> data])
        /\ IF data.tag = "raise"
           THEN \* the exception of connect leaves the method
                /\ vac_outcome' = AsListOutcome(data)
                /\ vac_pc' = "idle"
                /\ UNCHANGED <<vac_params, vac_vacancies>>
           ELSE IF vacancy = <<>>
           THEN \* break, then line 104
                /\ vac_outcome' = Return(vac_vacancies)
                /\ vac_pc' = "idle"
                /\ UNCHANGED <<vac_params, vac_vacancies>>
           ELSE /\ vac_vacancies' = vac_vacancies \o vacancy
                /\ vac_params' = [vac_params EXCEPT !["page"] = @ + 1]
                /\ UNCHANGED <<vac_outcome, vac_pc>>
        /\ UNCHANGED <<vac_endpoint, vac_args, vac_prev>>

\* line 104 after the loop condition turned false
vacancies_loop_exit ==
    /\ vac_pc = "loop"
    /\ ~vacancies_loop_condition
    /\ vac_outcome' = Return(vac_vacancies)
    /\ vac_pc' = "idle"
    /\ UNCHANGED <<vac_endpoint, vac_params, vac_vacancies, vac_args, vac_exchanges,
                   vac_prev>>

VacCall ==
    /\ \E employer_id \in EmployerIds, max_pages \in MaxPagesArgs :
           vacancies_call_start(employer_id, max_pages)
    /\ UNCHANGED <<hh_vars, emp_vars, employer_vars, db_vars, load_vars, caller_vars>>

VacPage ==
    /\ \E response \in PageResponses : vacancies_loop_body(response)
    /\ UNCHANGED <<hh_vars, emp_vars, employer_vars, db_vars, load_vars, caller_vars>>

VacReturn ==
    /\ vacancies_loop_exit
    /\ UNCHANGED <<hh_vars, emp_vars, employer_vars, db_vars, load_vars, caller_vars>>

get_vacancies_by_employer_id == VacCall \/ VacPage \/ VacReturn

---------------------------------------------------------------------------
(* HHEmployersAPI *)

\* top_n arguments: Python values with their type.  bool is a subclass of int
\* (True == 1); "Error" and 3.5 are the non-integers tried.
TopNArgs ==
    {[type |-> "int", value |-> n] : n \in {-1, 0, 1, 2, 100, 101}}
        \cup {[type |-> "bool", value |-> 1],
              [type |-> "str", value |-> 0],
              [type |-> "float", value |-> 3]}

Keywords == {<<"k", "w">>, <<>>}

\* isinstance(top_n, int)
is_int(top_n) == top_n.type \in {"int", "bool"}

\* the responses tried for the single request of an employers call
ListResponses == PageResponses

NoArgs == [op |-> "none", top_n |-> [type |-> "int", value |-> 0], keyword |-> <<>>]

\* lines 170-175 / 189-194: replace the parameters, clear the list, one request,
\* extend the list with the "items" of the answer and return it
employers_request(params, response) ==
    LET request == connect_request(emp_endpoint, params, NoneArg)
        data == connect(response)
        employers_search == DictGet(data.value, "items", <<>>)
    IN  /\ emp_params' = params
        /\ emp_requests' = <<request>>
        /\ emp_response' = response
        /\ IF data.tag = "raise"
           THEN /\ emp_employers' = <<>>
                /\ emp_outcome' = AsListOutcome(data)
           ELSE /\ emp_employers' = <<>> \o employers_search
                /\ emp_outcome' = Return(<<>> \o employers_search)
        /\ UNCHANGED emp_endpoint

\* an argument check failed: the exception leaves the method at once
employers_reject(exc, message) ==
    /\ emp_outcome' = AsListOutcome(Raise(exc, message))
    /\ emp_requests' = <<>>
    /\ emp_response' = NoResponse
    /\ UNCHANGED <<emp_endpoint, emp_params, emp_employers>>

search_employers_by_keyword(keyword, response) ==
    /\ emp_args' = [NoArgs EXCEPT !.op = "search", !.keyword = keyword]
    /\ employers_request(
           [text |-> keyword, only_with_vacancies |-> "true", area |-> "113"], response)

\* faulty variant: the parameters are replaced and the list cleared before the checks
get_top_employers_checks_late(top_n, response) ==
    /\ emp_args' = [NoArgs EXCEPT !.op = "top", !.top_n = top_n]
    /\ IF ~is_int(top_n) \/ top_n.value > 100
       THEN /\ emp_outcome' =
                   AsListOutcome(
                       IF ~is_int(top_n)
                       THEN Raise("TypeError", <<"Argument is not a number">>)
                       ELSE Raise("ValueError", <<"Count must be in range 1 to 100">>))
            /\ emp_requests' = <<>>
            /\ emp_response' = NoResponse
            /\ emp_params' = [per_page |-> top_n.value, sort_by |-> "by_vacancies_open",
                              area |-> "113"]
            /\ emp_employers' = <<>>
            /\ UNCHANGED emp_endpoint
       ELSE employers_request(
                [per_page |-> top_n.value, sort_by |-> "by_vacancies_open",
                 area |-> "113"], response)

get_top_employers(top_n, response) ==
    /\ emp_args' = [NoArgs EXCEPT !.op = "top", !.top_n = top_n]
    /\ IF ~is_int(top_n)
       THEN employers_reject("TypeError", <<"Argument is not a number">>)
       ELSE IF top_n.value > 100
       THEN employers_reject("ValueError", <<"Count must be in range 1 to 100">>)
       ELSE employers_request(
                [per_page |-> top_n.value, sort_by |-> "by_vacancies_open",
                 area |-> "113"], response)

EmpSearch ==
    /\ \E keyword \in Keywords, response \in ListResponses :
           search_employers_by_keyword(keyword, response)
    /\ UNCHANGED <<hh_vars, vac_vars, employer_vars, db_vars, load_vars, caller_vars>>

EmpTop ==
    /\ \E top_n \in TopNArgs, response \in ListResponses :
           get_top_employers(top_n, response)
    /\ UNCHANGED <<hh_vars, vac_vars, employer_vars, db_vars, load_vars, caller_vars>>

---------------------------------------------------------------------------
(* HHEmployerAPI *)

\* faulty variant: lines 133 and 135 in place of 132 and 134: the id is
\* appended to self._endpoint, which the request then uses
get_employer_by_id_appends(employer_id, response) ==
    LET data == connect(response)
    IN  /\ employer_endpoint' = employer_endpoint \o employer_id
        /\ employer_arg' = employer_id
        /\ employer_prev' = employer_arg
        /\ employer_requests' =
               <<connect_request(employer_endpoint', employer_params, NoneArg)>>
        /\ employer_response' = response
        /\ employer_outcome' = data
        /\ employer_employer' =
               IF data.tag = "return" THEN data.value ELSE employer_employer
        /\ UNCHANGED employer_params

\* get_employer_by_id, lines 126-137: one connect call on the endpoint made of
\* self._endpoint and the id; self.__employer is assigned when connect returns
get_employer_by_id(employer_id, response) ==
    LET endpoint_url == employer_endpoint \o employer_id
        data == connect(response)
    IN  /\ employer_arg' = employer_id
        /\ employer_prev' = employer_arg
        /\ employer_requests' =
               <<connect_request(employer_endpoint, employer_params, Some(endpoint_url))>>
        /\ employer_response' = response
        /\ employer_outcome' = data
        /\ employer_employer' =
               IF data.tag = "return" THEN data.value ELSE employer_employer
        /\ UNCHANGED <<employer_endpoint, employer_params>>

EmployerGet ==
    /\ \E employer_id \in EmployerIds, response \in PageResponses :
           get_employer_by_id(employer_id, response)
    /\ UNCHANGED <<hh_vars, vac_vars, emp_vars, db_vars, load_vars, caller_vars>>

---------------------------------------------------------------------------
(* The database: tables employers and vacancies, and what a cursor hands back *)

\* a nullable column value: NULL, or a value
Null == <<>>
Val(x) == <<x>>

\* the rows table employers is filled from (employer_id is the primary key,
\* employer_name is UNIQUE NOT NULL)
EmployerRows ==
    {[employer_id |-> 1, employer_name |-> <<"Acme">>],
     [employer_id |-> 2, employer_name |-> <<"Beta">>]}

\* the rows table vacancies is filled from (vacancy_id is the primary key,
\* employer_id a nullable reference to employers, the salary bounds nullable)
VacancyRows ==
    {[vacancy_id |-> 10, employer_id |-> Val(1), vacancy_name |-> <<"E", "n", "g">>,
      city |-> <<"Moscow">>, vacancy_url |-> <<"u10">>,
      salary_from |-> Val(100), salary_to |-> Val(200)],
     [vacancy_id |-> 11, employer_id |-> Val(1), vacancy_name |-> <<"Q", "_", "A">>,
      city |-> <<"Moscow">>, vacancy_url |-> <<"u11">>,
      salary_from |-> Null, salary_to |-> Val(300)],
     [vacancy_id |-> 12, employer_id |-> Val(2), vacancy_name |-> <<"D", "e", "v">>,
      city |-> <<"Kazan">>, vacancy_url |-> <<"u12">>,
      salary_from |-> Val(101), salary_to |-> Val(200)],
     [vacancy_id |-> 13, employer_id |-> Null, vacancy_name |-> <<"e", "N", "G">>,
      city |-> <<"Kazan">>, vacancy_url |-> <<"u13">>,
      salary_from |-> Val(101), salary_to |-> Val(202)]}

\* employer_id INT REFERENCES employers(employer_id): a reference is NULL or the
\* key of a stored employer
ForeignKeysHold(employers, vacancies) ==
    \A v \in vacancies :
        v.employer_id = Null \/ \E e \in employers : v.employer_id = Val(e.employer_id)

\* (salary_from + salary_to)/2 on INT columns: integer division, NULL if a bound is NULL
Midpoint(row) ==
    IF row.salary_from = Null \/ row.salary_to = Null
    THEN Null
    ELSE Val((row.salary_from[1] + row.salary_to[1]) \div 2)

\* the sum of the midpoints of a set of rows that all have one
RECURSIVE SumMidpoints(_)
SumMidpoints(rows) ==
    IF rows = {} THEN 0
    ELSE LET r == CHOOSE x \in rows : TRUE
         IN  Midpoint(r)[1] + SumMidpoints(rows \ {r})

\* a value a cursor column can hold: NULL, a numeric (num/den), or a text
SqlNull == [kind |-> "null", num |-> 0, den |-> 1, text |-> <<>>]
SqlNumeric(n, d) == [kind |-> "numeric", num |-> n, den |-> d, text |-> <<>>]
SqlText(t) == [kind |-> "text", num |-> 0, den |-> 1, text |-> t]

\* SELECT AVG((salary_from + salary_to)/2) FROM vacancies: the mean over the
\* rows whose midpoint is not NULL, NULL when there is none
AvgAggregate(table) ==
    LET rows == {r \in table : Midpoint(r) # Null}
    IN  IF rows = {} THEN SqlNull ELSE SqlNumeric(SumMidpoints(rows), Cardinality(rows))

\* texts a cursor can hold in place of the aggregate (as the tests inject them)
TextAggregates ==
    {SqlText(<<"a", "b", "c">>), SqlText(<<"1", "5", ".", "5">>), SqlText(<<>>),
     SqlText(<<".">>), SqlText(<<"0">>)}

\* fetchall() after a statement without ORDER BY: the rows, in any order
Orderings(rows) ==
    {s \in [1..Cardinality(rows) -> rows] :
        \A i, j \in 1..Cardinality(rows) : s[i] = s[j] => i = j}

---------------------------------------------------------------------------
(* The statements DBManager executes, evaluated over the tables *)

\* employers LEFT JOIN vacancies USING(employer_id): a row per matching pair,
\* and a row with a NULL vacancy for an employer that no vacancy references
employers_left_join_vacancies(employers, vacancies) ==
    {[employer |-> p[1], vacancy |-> Val(p[2])] :
        p \in {q \in employers \X vacancies : q[2].employer_id = Val(q[1].employer_id)}}
    \cup
    {[employer |-> e, vacancy |-> Null] :
        e \in {x \in employers : \A v \in vacancies : v.employer_id # Val(x.employer_id)}}

\* faulty variant: COUNT(*) counts the rows of the group
count_star(group) == Cardinality(group)

\* COUNT(vacancy_id): the rows of the group whose vacancy_id is not NULL
count_vacancy_id(group) == Cardinality({j \in group : j.vacancy # Null})

\* SELECT employer_name, COUNT(vacancy_id) FROM employers LEFT JOIN vacancies
\* USING(employer_id) GROUP BY employer_name
companies_and_vacancies_count_query(employers, vacancies) ==
    LET joined == employers_left_join_vacancies(employers, vacancies)
    IN  {[employer_name |-> n,
          count_vacancies |->
              count_vacancy_id({j \in joined : j.employer.employer_name = n})] :
            n \in {j.employer.employer_name : j \in joined}}

\* faulty variant: JOIN, which drops the vacancies without an employer
vacancies_join_employers(vacancies, employers) ==
    {[vacancy |-> p[1], employer |-> Val(p[2])] :
        p \in {q \in vacancies \X employers : q[1].employer_id = Val(q[2].employer_id)}}

\* vacancies LEFT JOIN employers USING(employer_id): a row per matching pair,
\* and a row with a NULL employer for a vacancy that references none
vacancies_left_join_employers(vacancies, employers) ==
    {[vacancy |-> p[1], employer |-> Val(p[2])] :
        p \in {q \in vacancies \X employers : q[1].employer_id = Val(q[2].employer_id)}}
    \cup
    {[vacancy |-> v, employer |-> Null] :
        v \in {x \in vacancies : \A e \in employers : x.employer_id # Val(e.employer_id)}}

\* SELECT employer_name, vacancy_name, salary_from, salary_to, vacancy_url
all_vacancies_row(j) ==
    [employer_name |-> IF j.employer = Null THEN Null
                       ELSE Val(j.employer[1].employer_name),
     vacancy_name |-> j.vacancy.vacancy_name,
     salary_from |-> j.vacancy.salary_from,
     salary_to |-> j.vacancy.salary_to,
     vacancy_url |-> j.vacancy.vacancy_url]

\* the sum of salary_from + salary_to over a set of rows that have both
RECURSIVE SumBounds(_)
SumBounds(rows) ==
    IF rows = {} THEN 0
    ELSE LET r == CHOOSE x \in rows : TRUE
         IN  r.salary_from[1] + r.salary_to[1] + SumBounds(rows \ {r})

\* WITH avg_salary AS (SELECT (AVG(salary_from + salary_to))/2 FROM vacancies):
\* AVG of INT is numeric, so is its half; NULL when no row has both bounds
avg_salary_cte(vacancies) ==
    LET rows == {r \in vacancies : Midpoint(r) # Null}
    IN  IF rows = {} THEN SqlNull
        ELSE SqlNumeric(SumBounds(rows), 2 * Cardinality(rows))

\* SELECT ... FROM vacancies WHERE ((salary_from+salary_to)/2) > (SELECT avg_salary
\* FROM avg_salary): a comparison with NULL on either side selects nothing
higher_salary_query(vacancies) ==
    LET avg_salary == avg_salary_cte(vacancies)
    IN  {r \in vacancies :
            /\ Midpoint(r) # Null
            /\ avg_salary.kind = "numeric"
            /\ Midpoint(r)[1] * avg_salary.den > avg_salary.num}

UpperLetters == <<"A", "B", "C", "D", "E", "F", "G", "H", "I", "J", "K", "L", "M",
                  "N", "O", "P", "Q", "R", "S", "T", "U", "V", "W", "X", "Y", "Z">>
LowerLetters == <<"a", "b", "c", "d", "e", "f", "g", "h", "i", "j", "k", "l", "m",
                  "n", "o", "p", "q", "r", "s", "t", "u", "v", "w", "x", "y", "z">>

\* LOWER() on a text
Lower(t) ==
    [i \in 1..Len(t) |->
        IF \E k \in 1..Len(UpperLetters) : UpperLetters[k] = t[i]
        THEN LowerLetters[CHOOSE k \in 1..Len(UpperLetters) : UpperLetters[k] = t[i]]
        ELSE t[i]]

\* text LIKE pattern: % stands for any run of characters, _ for any one
\* character, any other character for itself
RECURSIVE Like(_, _)
Like(text, pattern) ==
    IF pattern = <<>> THEN text = <<>>
    ELSE IF pattern[1] = "%"
    THEN Like(text, Tail(pattern)) \/ (text # <<>> /\ Like(Tail(text), pattern))
    ELSE IF pattern[1] = "_"
    THEN text # <<>> /\ Like(Tail(text), Tail(pattern))
    ELSE text # <<>> /\ text[1] = pattern[1] /\ Like(Tail(text), Tail(pattern))

\* SELECT ... FROM vacancies WHERE LOWER(vacancy_name) LIKE LOWER(%s) AND ...,
\* one condition per element of the parameter tuple
keyword_query(vacancies, params) ==
    {r \in vacancies :
        \A i \in 1..Len(params) : Like(Lower(r.vacancy_name), Lower(params[i]))}

---------------------------------------------------------------------------
(* Python conversions used by DBManager *)

DigitTokens == <<"0", "1", "2", "3", "4", "5", "6", "7", "8", "9">>
IsDigit(c) == \E i \in 1..10 : DigitTokens[i] = c
DigitValue(c) == (CHOOSE i \in 1..10 : DigitTokens[i] = c) - 1

RECURSIVE Pow10(_)
Pow10(n) == IF n = 0 THEN 1 ELSE 10 * Pow10(n - 1)

\* the number a sequence of digits denotes
RECURSIVE DigitsValue(_)
DigitsValue(t) ==
    IF t = <<>> THEN 0
    ELSE 10 * DigitsValue(SubSeq(t, 1, Len(t) - 1)) + DigitValue(t[Len(t)])

\* float(text) for texts of digits with at most one point: the number, or
\* ValueError for any other text
ParseFloat(t) ==
    LET points == {i \in 1..Len(t) : t[i] = "."}
        digits == SelectSeq(t, IsDigit)
        frac == IF points = {} THEN 0 ELSE Len(t) - (CHOOSE i \in points : TRUE)
    IN  IF /\ \A i \in 1..Len(t) : IsDigit(t[i]) \/ t[i] = "."
           /\ Cardinality(points) <= 1
           /\ digits # <<>>
        THEN [ok |-> TRUE, num |-> DigitsValue(digits), den |-> Pow10(frac)]
        ELSE [ok |-> FALSE, num |-> 0, den |-> 1]

\* bool(result): None, a numeric zero and the empty text are false
Truthy(v) ==
    CASE v.kind = "null" -> FALSE
      [] v.kind = "numeric" -> v.num # 0
      [] OTHER -> v.text # <<>>

\* str.isspace on one character
IsSpace(c) == c \in {" ", "\t", "\n"}

\* keywords.split(): the maximal runs of non-space characters, in order
RECURSIVE Split(_)
Split(t) ==
    IF t = <<>> THEN <<>>
    ELSE IF IsSpace(t[1]) THEN Split(Tail(t))
    ELSE LET stops == {i \in 1..Len(t) : IsSpace(t[i])}
             stop == IF stops = {} THEN Len(t) + 1
                     ELSE CHOOSE i \in stops : \A j \in stops : i <= j
         IN  <<SubSeq(t, 1, stop - 1)>> \o Split(SubSeq(t, stop, Len(t)))

---------------------------------------------------------------------------
(* DBManager *)

NoConn == 0

Zero == [num |-> 0, den |-> 1]

DbReturnRows(rows) == [tag |-> "return", exc |-> "", rows |-> rows, number |-> Zero]
DbReturnNumber(n) == [tag |-> "return", exc |-> "", rows |-> <<>>, number |-> n]
DbReturnNone == [tag |-> "return", exc |-> "", rows |-> <<>>, number |-> Zero]
DbRaise(e) == [tag |-> "raise", exc |-> e, rows |-> <<>>, number |-> Zero]
DbNoOutcome == [tag |-> "none", exc |-> "", rows |-> <<>>, number |-> Zero]

NoFault == [open_failed |-> FALSE, execute_failed |-> FALSE]
DbCall(op, keywords, fault, fetched, held) ==
    [op |-> op, keywords |-> keywords, fault |-> fault, fetched |-> fetched,
     held |-> held]

\* a handle no open connection has
FreshConn == CHOOSE h \in 1..(Cardinality(db_open) + 1) : h \notin db_open

\* faulty variant: connect() opens a connection whether or not one is held
conn_after_connect_reopens(open_ok) == IF open_ok THEN FreshConn ELSE NoConn

\* connect(), lines 91-104: the handle the instance holds afterwards.  A failure
\* of psycopg2.connect is caught and leaves None.
conn_after_connect(open_ok) ==
    IF db_conn = NoConn
    THEN IF open_ok THEN FreshConn ELSE NoConn
    ELSE db_conn

\* the connections open after connect()
open_after_connect(open_ok) ==
    IF conn_after_connect(open_ok) = NoConn
    THEN db_open
    ELSE db_open \cup {conn_after_connect(open_ok)}

\* faulty variant: close() forgets the handle without closing the connection
open_after_close_forgets(open, conn) == open

\* close(), lines 108-110, on the handle conn: the connections left open
open_after_close(open, conn) == IF conn # NoConn THEN open \ {conn} ELSE open

\* the except clauses of the methods returning rows: psycopg2.DatabaseError
rows_handler_catches == {"DatabaseError"}

\* the except clauses of get_avg_salary: psycopg2.DatabaseError and ValueError
avg_handler_catches == {"DatabaseError", "ValueError"}

\* the try block of a method: what it returns or raises, given the handle it
\* works on, whether execute succeeds, and the conversion of what was fetched
try_block(conn, execute_ok, converted) ==
    IF conn = NoConn
    THEN DbRaise("AttributeError")       \* None has no attribute cursor
    ELSE IF ~execute_ok
    THEN DbRaise("DatabaseError")
    ELSE converted

\* line 130 (157, 209, 235): result if result else []
rows_convert(rows) == DbReturnRows(IF rows # <<>> THEN rows ELSE <<>>)

\* faulty variant: line 181 without the test of the result: float(None) is a TypeError
avg_convert_unguarded(result) ==
    IF result.kind = "null"
    THEN DbRaise("TypeError")
    ELSE IF result.kind = "numeric"
    THEN DbReturnNumber([num |-> result.num, den |-> result.den])
    ELSE IF ParseFloat(result.text).ok
    THEN DbReturnNumber([num |-> ParseFloat(result.text).num,
                         den |-> ParseFloat(result.text).den])
    ELSE DbRaise("ValueError")

\* line 181: float(result) if result else 0.0
avg_convert(result) ==
    IF ~Truthy(result)
    THEN DbReturnNumber(Zero)
    ELSE IF result.kind = "numeric"
    THEN DbReturnNumber([num |-> result.num, den |-> result.den])
    ELSE IF ParseFloat(result.text).ok
    THEN DbReturnNumber([num |-> ParseFloat(result.text).num,
                         den |-> ParseFloat(result.text).den])
    ELSE DbRaise("ValueError")

\* a read method from connect() to the end of its finally clause: op is the
\* method, catches its except clauses, sentinel what they return, converted the
\* conversion of what the cursor handed back
read_method(op, keywords, open_ok, execute_ok, fetched, converted, catches, sentinel) ==
    LET conn == conn_after_connect(open_ok)
        opened == open_after_connect(open_ok)
        tried == try_block(conn, execute_ok, converted)
    IN  /\ db_call' = DbCall(op, keywords,
                             [open_failed |-> db_conn = NoConn /\ ~open_ok,
                              execute_failed |-> conn # NoConn /\ ~execute_ok],
                             fetched, db_conn # NoConn)
        /\ db_executed' = IF conn # NoConn THEN <<op>> ELSE <<>>
        /\ db_outcome' = IF tried.tag = "raise" /\ tried.exc \in catches
                         THEN sentinel
                         ELSE tried
        \* finally: self.close()
        /\ db_conn' = NoConn
        /\ db_open' = open_after_close(opened, conn)
        /\ UNCHANGED <<db_employers, db_vacancies>>

ReadOps == {"get_companies_and_vacancies_count", "get_all_vacancies", "get_avg_salary",
            "get_vacancies_with_higher_salary", "get_vacancies_with_keyword"}

get_companies_and_vacancies_count(open_ok, execute_ok) ==
    \E rows \in Orderings(companies_and_vacancies_count_query(db_employers, db_vacancies)) :
        read_method("get_companies_and_vacancies_count", <<>>, open_ok, execute_ok,
                    SqlNull, rows_convert(rows), rows_handler_catches, DbReturnRows(<<>>))

get_all_vacancies(open_ok, execute_ok) ==
    \E joined \in Orderings(vacancies_left_join_employers(db_vacancies, db_employers)) :
        read_method("get_all_vacancies", <<>>, open_ok, execute_ok, SqlNull,
                    rows_convert([i \in 1..Len(joined) |-> all_vacancies_row(joined[i])]),
                    rows_handler_catches, DbReturnRows(<<>>))

get_avg_salary(open_ok, execute_ok, result) ==
    read_method("get_avg_salary", <<>>, open_ok, execute_ok, result,
                avg_convert(result), avg_handler_catches, DbReturnNumber(Zero))

get_vacancies_with_higher_salary(open_ok, execute_ok) ==
    \E rows \in Orderings(higher_salary_query(db_vacancies)) :
        read_method("get_vacancies_with_higher_salary", <<>>, open_ok, execute_ok,
                    SqlNull, rows_convert(rows), rows_handler_catches, DbReturnRows(<<>>))

\* line 232: tuple(f"%{keyword}%" for keyword in keywords_list)
like_params(keywords_list) ==
    [i \in 1..Len(keywords_list) |-> <<"%">> \o keywords_list[i] \o <<"%">>]

\* faulty variant: the test for blank input comes after connect()
get_vacancies_with_keyword_connects_first(keywords, open_ok, execute_ok) ==
    IF Split(keywords) = <<>>
    THEN /\ db_call' = DbCall("get_vacancies_with_keyword", keywords,
                              [open_failed |-> db_conn = NoConn /\ ~open_ok,
                               execute_failed |-> FALSE], SqlNull, db_conn # NoConn)
         /\ db_executed' = <<>>
         /\ db_outcome' = DbReturnRows(<<>>)
         /\ db_conn' = conn_after_connect(open_ok)
         /\ db_open' = open_after_connect(open_ok)
         /\ UNCHANGED <<db_employers, db_vacancies>>
    ELSE \E rows \in Orderings(keyword_query(db_vacancies, like_params(Split(keywords)))) :
             read_method("get_vacancies_with_keyword", keywords, open_ok, execute_ok,
                         SqlNull, rows_convert(rows), rows_handler_catches,
                         DbReturnRows(<<>>))

get_vacancies_with_keyword(keywords, open_ok, execute_ok) ==
    IF Split(keywords) = <<>>
    THEN \* lines 223-224: nothing is opened, executed or closed
         /\ db_call' = DbCall("get_vacancies_with_keyword", keywords, NoFault, SqlNull,
                              db_conn # NoConn)
         /\ db_executed' = <<>>
         /\ db_outcome' = DbReturnRows(<<>>)
         /\ UNCHANGED <<db_conn, db_open, db_employers, db_vacancies>>
    ELSE \E rows \in Orderings(keyword_query(db_vacancies, like_params(Split(keywords)))) :
             read_method("get_vacancies_with_keyword", keywords, open_ok, execute_ok,
                         SqlNull, rows_convert(rows), rows_handler_catches,
                         DbReturnRows(<<>>))

\* connect() called by the user of the instance
db_connect(open_ok) ==
    /\ db_call' = DbCall("connect", <<>>,
                         [open_failed |-> db_conn = NoConn /\ ~open_ok,
                          execute_failed |-> FALSE], SqlNull, db_conn # NoConn)
    /\ db_conn' = conn_after_connect(open_ok)
    /\ db_open' = open_after_connect(open_ok)
    /\ db_executed' = <<>>
    /\ db_outcome' = DbReturnNone
    /\ UNCHANGED <<db_employers, db_vacancies>>

\* close() called by the user of the instance
db_close ==
    /\ db_call' = DbCall("close", <<>>, NoFault, SqlNull, db_conn # NoConn)
    /\ db_open' = open_after_close(db_open, db_conn)
    /\ db_conn' = NoConn
    /\ db_executed' = <<>>
    /\ db_outcome' = DbReturnNone
    /\ UNCHANGED <<db_employers, db_vacancies>>

KeywordArgs == {<<>>, <<" ">>, <<" ", "\t">>, <<"E", "n", "g">>, <<"e", " ", "g">>,
                <<"_">>, <<"%", " ", "q">>}

DBConnect ==
    /\ \E open_ok \in BOOLEAN : db_connect(open_ok)
    /\ UNCHANGED <<hh_vars, vac_vars, emp_vars, employer_vars, load_vars, caller_vars>>

DBClose ==
    /\ db_close
    /\ UNCHANGED <<hh_vars, vac_vars, emp_vars, employer_vars, load_vars, caller_vars>>

DBCount ==
    /\ \E open_ok \in BOOLEAN, execute_ok \in BOOLEAN :
           get_companies_and_vacancies_count(open_ok, execute_ok)
    /\ UNCHANGED <<hh_vars, vac_vars, emp_vars, employer_vars, load_vars, caller_vars>>

DBAll ==
    /\ \E open_ok \in BOOLEAN, execute_ok \in BOOLEAN :
           get_all_vacancies(open_ok, execute_ok)
    /\ UNCHANGED <<hh_vars, vac_vars, emp_vars, employer_vars, load_vars, caller_vars>>

DBAvg ==
    /\ \E open_ok \in BOOLEAN, execute_ok \in BOOLEAN,
          result \in {AvgAggregate(db_vacancies)} \cup TextAggregates :
           get_avg_salary(open_ok, execute_ok, result)
    /\ UNCHANGED <<hh_vars, vac_vars, emp_vars, employer_vars, load_vars, caller_vars>>

DBHigher ==
    /\ \E open_ok \in BOOLEAN, execute_ok \in BOOLEAN :
           get_vacancies_with_higher_salary(open_ok, execute_ok)
    /\ UNCHANGED <<hh_vars, vac_vars, emp_vars, employer_vars, load_vars, caller_vars>>

DBKeyword ==
    /\ \E keywords \in KeywordArgs, open_ok \in BOOLEAN, execute_ok \in BOOLEAN :
           get_vacancies_with_keyword(keywords, open_ok, execute_ok)
    /\ UNCHANGED <<hh_vars, vac_vars, emp_vars, employer_vars, load_vars, caller_vars>>

---------------------------------------------------------------------------
(* The batch load: safe_data_to_employers, safe_data_to_vacancies and       *)
(* filling_db_hh.  A key that holds null in an API dict is written as an   *)
(* absent key: d.get(k) is None for both.  Identifiers are numbers: the    *)
(* database casts the identifier texts of the API to its INT columns.      *)

\* d.get(k): the value, or None
Get(d, k) == IF k \in DOMAIN d THEN Val(d[k]) ELSE Null

\* employers as the API describes them
EmployerItems ==
    [acme |-> [id |-> 1, name |-> <<"Acme">>, alternate_url |-> <<"e1">>],
     beta |-> [id |-> 2, name |-> <<"Beta">>, alternate_url |-> <<"e2">>],
     namesake |-> [id |-> 3, name |-> <<"Acme">>, alternate_url |-> <<"e3">>],
     nameless |-> [id |-> 4, alternate_url |-> <<"e4">>]]

\* the employers_data tried
EmployerBatches ==
    {<<>>,
     <<EmployerItems.acme>>,
     <<EmployerItems.acme, EmployerItems.beta>>,
     <<EmployerItems.beta, EmployerItems.acme>>,
     <<EmployerItems.namesake>>,
     <<EmployerItems.beta, EmployerItems.nameless>>}

\* vacancies as the API describes them
VacancyItems ==
    [v10 |-> [id |-> 10, employer |-> [id |-> 1], name |-> <<"E", "n", "g">>,
              area |-> [name |-> <<"Moscow">>], alternate_url |-> <<"u10">>,
              salary |-> [from |-> 100, to |-> 200]],
     v11 |-> [id |-> 11, employer |-> [id |-> 1], name |-> <<"Q", "_", "A">>,
              area |-> [name |-> <<"Moscow">>], alternate_url |-> <<"u11">>,
              salary |-> [to |-> 300]],
     v12 |-> [id |-> 12, employer |-> [id |-> 2], name |-> <<"D", "e", "v">>,
              area |-> [name |-> <<"Kazan">>], alternate_url |-> <<"u12">>,
              salary |-> [from |-> 101, to |-> 200]],
     v13 |-> [id |-> 13, employer |-> EmptyDict, name |-> <<"e", "N", "G">>,
              area |-> [name |-> <<"Kazan">>], alternate_url |-> <<"u13">>,
              salary |-> [from |-> 101, to |-> 202]],
     v14 |-> [id |-> 14, employer |-> [id |-> 2], name |-> <<"O", "p", "s">>,
              area |-> [name |-> <<"Kazan">>], alternate_url |-> <<"u14">>]]

\* the vacancies_data tried: the result of the API is not deduplicated
VacancyBatches ==
    {<<>>,
     <<VacancyItems.v10>>,
     <<VacancyItems.v10, VacancyItems.v11>>,
     <<VacancyItems.v10, VacancyItems.v10>>,
     <<VacancyItems.v11, VacancyItems.v12>>,
     <<VacancyItems.v13>>,
     <<VacancyItems.v14, VacancyItems.v12>>}

\* lines 155-157: the parameters of INSERT INTO employers
employer_row(employer) ==
    [employer_id |-> Get(employer, "id"),
     employer_name |-> Get(employer, "name"),
     employer_url |-> Get(employer, "alternate_url")]

\* the constraints of table employers that refuse the row: NOT NULL, PRIMARY
\* KEY(employer_id), UNIQUE(employer_name)
employer_insert_fails(row, employers) ==
    \/ row.employer_id = Null
    \/ row.employer_name = Null
    \/ row.employer_url = Null
    \/ \E e \in employers : e.employer_id = row.employer_id[1]
    \/ \E e \in employers : e.employer_name = row.employer_name[1]

\* the row of table employers the insert stores
employer_stored(row) ==
    [employer_id |-> row.employer_id[1], employer_name |-> row.employer_name[1]]

\* lines 153-168: the loop of inserts.  employers is the table as the
\* transaction sees it, done the inserts made, fail_at the insert on which
\* the server fails (0: none).  The loop ends at the first insert that raises.
RECURSIVE employers_loop(_, _, _, _)
employers_loop(data, employers, fail_at, done) ==
    IF data = <<>>
    THEN [failed |-> FALSE, table |-> employers, attempted |-> done]
    ELSE IF fail_at = done + 1 \/ employer_insert_fails(employer_row(Head(data)), employers)
    THEN [failed |-> TRUE, table |-> employers, attempted |-> done + 1]
    ELSE employers_loop(Tail(data),
                        employers \cup {employer_stored(employer_row(Head(data)))},
                        fail_at, done + 1)

\* lines 192-194: vacancy.get("employer").get("id") and
\* vacancy.get("area").get("name") raise AttributeError on None
vacancy_raises(vacancy) == Get(vacancy, "employer") = Null \/ Get(vacancy, "area") = Null

\* lines 191-202: the parameters of INSERT INTO vacancies
vacancy_row(vacancy) ==
    LET salary_info == Get(vacancy, "salary")
    IN  [vacancy_id |-> Get(vacancy, "id"),
         employer_id |-> Get(Get(vacancy, "employer")[1], "id"),
         vacancy_name |-> Get(vacancy, "name"),
         city |-> Get(Get(vacancy, "area")[1], "name"),
         vacancy_url |-> Get(vacancy, "alternate_url"),
         salary_from |-> IF salary_info # Null THEN Get(salary_info[1], "from") ELSE Null,
         salary_to |-> IF salary_info # Null THEN Get(salary_info[1], "to") ELSE Null]

\* faulty variant: table vacancies without REFERENCES employers(employer_id)
vacancy_insert_fails_unreferenced(row, vacancies, employers) ==
    \/ row.vacancy_id = Null
    \/ row.vacancy_name = Null
    \/ row.city = Null
    \/ row.vacancy_url = Null
    \/ \E v \in vacancies : v.vacancy_id = row.vacancy_id[1]

\* the constraints of table vacancies that refuse the row: NOT NULL, PRIMARY
\* KEY(vacancy_id), employer_id REFERENCES employers(employer_id)
vacancy_insert_fails(row, vacancies, employers) ==
    \/ row.vacancy_id = Null
    \/ row.vacancy_name = Null
    \/ row.city = Null
    \/ row.vacancy_url = Null
    \/ \E v \in vacancies : v.vacancy_id = row.vacancy_id[1]
    \/ /\ row.employer_id # Null
       /\ \A e \in employers : e.employer_id # row.employer_id[1]

\* the row of table vacancies the insert stores
vacancy_stored(row) ==
    [vacancy_id |-> row.vacancy_id[1], employer_id |-> row.employer_id,
     vacancy_name |-> row.vacancy_name[1], city |-> row.city[1],
     vacancy_url |-> row.vacancy_url[1],
     salary_from |-> row.salary_from, salary_to |-> row.salary_to]

\* lines 190-221: the loop of inserts, as employers_loop
RECURSIVE vacancies_loop(_, _, _, _, _)
vacancies_loop(data, vacancies, employers, fail_at, done) ==
    IF data = <<>>
    THEN [failed |-> FALSE, table |-> vacancies, attempted |-> done]
    ELSE IF vacancy_raises(Head(data))
    THEN [failed |-> TRUE, table |-> vacancies, attempted |-> done]
    ELSE IF \/ fail_at = done + 1
            \/ vacancy_insert_fails(vacancy_row(Head(data)), vacancies, employers)
    THEN [failed |-> TRUE, table |-> vacancies, attempted |-> done + 1]
    ELSE vacancies_loop(Tail(data),
                        vacancies \cup {vacancy_stored(vacancy_row(Head(data)))},
                        employers, fail_at, done + 1)

\* faulty variant: the connection commits each insert as it is made
commit_after_loop_each_insert(stored, looped) == looped.table

\* lines 170-174 (222-226): conn.commit() is reached when no insert raised;
\* conn.close() discards what the transaction did otherwise
commit_after_loop(stored, looped) == IF looped.failed THEN stored ELSE looped.table

\* what a batch did to the database: its inserts, the commit if it got there,
\* the close
LoadEvent(table, event) == [table |-> table, event |-> event]
batch_log(table, looped) ==
    [i \in 1..looped.attempted |-> LoadEvent(table, "insert")]
        \o (IF looped.failed THEN <<>> ELSE <<LoadEvent(table, "commit")>>)
        \o <<LoadEvent(table, "close")>>

LoadReturn == [tag |-> "return", exc |-> ""]
LoadRaise(e) == [tag |-> "raise", exc |-> e]
LoadNoOutcome == [tag |-> "none", exc |-> ""]

\* safe_data_to_employers, utils.py:143-174, called at main.py:38.  When
\* connect_db returned None, conn.cursor() raises AttributeError, which line
\* 171 catches, and conn.close() in the finally clause raises it again: the
\* run ends there.
safe_data_to_employers(data, open_ok, fail_at) ==
    LET looped == employers_loop(data, db_employers, fail_at, 0)
    IN  IF ~open_ok
        THEN /\ load_log' = load_log \o <<LoadEvent("employers", "no connection")>>
             /\ load_outcome' = LoadRaise("AttributeError")
             /\ load_pc' = "idle"
             /\ UNCHANGED db_employers
        ELSE /\ db_employers' = commit_after_loop(db_employers, looped)
             /\ load_log' = load_log \o batch_log("employers", looped)
             /\ load_pc' = "vacancies"
             /\ UNCHANGED load_outcome

\* safe_data_to_vacancies, utils.py:177-226, called at main.py:40, after which
\* filling_db_hh returns
safe_data_to_vacancies(data, open_ok, fail_at) ==
    LET looped == vacancies_loop(data, db_vacancies, db_employers, fail_at, 0)
    IN  IF ~open_ok
        THEN /\ load_log' = load_log \o <<LoadEvent("vacancies", "no connection")>>
             /\ load_outcome' = LoadRaise("AttributeError")
             /\ load_pc' = "idle"
             /\ UNCHANGED db_vacancies
        ELSE /\ db_vacancies' = commit_after_loop(db_vacancies, looped)
             /\ load_log' = load_log \o batch_log("vacancies", looped)
             /\ load_pc' = "idle"
             /\ load_outcome' = LoadReturn

\* filling_db_hh, main.py:26-35: the data are fetched from the API; an error of
\* the API ends the run before the database is touched
filling_db_hh_fetch(api_ok, employers_data, vacancies_data) ==
    /\ load_pc = "idle"
    /\ load_log' = <<>>
    /\ IF api_ok
       THEN /\ load_pc' = "employers"
            /\ load_employers_data' = employers_data
            /\ load_vacancies_data' = vacancies_data
            /\ load_outcome' = LoadNoOutcome
       ELSE /\ load_pc' = "idle"
            /\ load_employers_data' = <<>>
            /\ load_vacancies_data' = <<>>
            /\ load_outcome' = LoadRaise("APIError")

dbm_vars == <<db_conn, db_open, db_call, db_executed, db_outcome>>

LoadFetch ==
    /\ \E api_ok \in BOOLEAN, employers_data \in EmployerBatches,
          vacancies_data \in VacancyBatches :
           filling_db_hh_fetch(api_ok, employers_data, vacancies_data)
    /\ UNCHANGED <<hh_vars, vac_vars, emp_vars, employer_vars, db_vars, caller_vars>>

LoadEmployers ==
    /\ load_pc = "employers"
    /\ \E open_ok \in BOOLEAN, fail_at \in 0..Len(load_employers_data) :
           safe_data_to_employers(load_employers_data, open_ok, fail_at)
    /\ UNCHANGED <<hh_vars, vac_vars, emp_vars, employer_vars, dbm_vars, db_vacancies,
                   load_employers_data, load_vacancies_data, caller_vars>>

LoadVacancies ==
    /\ load_pc = "vacancies"
    /\ \E open_ok \in BOOLEAN, fail_at \in 0..Len(load_vacancies_data) :
           safe_data_to_vacancies(load_vacancies_data, open_ok, fail_at)
    /\ UNCHANGED <<hh_vars, vac_vars, emp_vars, employer_vars, dbm_vars, db_employers,
                   load_employers_data, load_vacancies_data, caller_vars>>

---------------------------------------------------------------------------
(* A caller that holds on to the result of a list operation.  The operations *)
(* return the list object of the instance itself, so the caller's result is  *)
(* that object, whose contents later calls change.                           *)

\* hh_api.py:104: return self.__vacancies
vacancies_result == "self.__vacancies"

\* hh_api.py:175, 194: return self.__employers
employers_result == "self.__employers"

\* the contents of a list object now
Contents(ref) ==
    IF ref = vacancies_result THEN vac_vacancies
    ELSE IF ref = employers_result THEN emp_employers
    ELSE <<>>

NotKept == [ref |-> "none", was |-> <<>>]

\* the caller keeps the result get_vacancies_by_employer_id just returned
\* (utils.py:254: vacancies = vacancies_data.get_vacancies_by_employer_id(...))
VacKeep ==
    /\ vac_pc = "idle"
    /\ vac_outcome.tag = "return"
    /\ emp_args = NoArgs
    /\ kept' = [ref |-> vacancies_result, was |-> Contents(vacancies_result)]
    /\ UNCHANGED <<hh_vars, vac_vars, emp_vars, employer_vars, db_vars, load_vars>>

\* the caller keeps the result search_employers_by_keyword or get_top_employers
\* just returned (main.py:29: top_employers = employers_api.get_top_employers(10))
EmpKeep ==
    /\ emp_outcome.tag = "return"
    /\ vac_outcome = NoOutcome
    /\ kept' = [ref |-> employers_result, was |-> Contents(employers_result)]
    /\ UNCHANGED <<hh_vars, vac_vars, emp_vars, employer_vars, db_vars, load_vars>>

---------------------------------------------------------------------------
(* Initial state: the clients and the DBManager right after construction *)

NoRequest == [url |-> <<>>, headers |-> headers, params |-> EmptyDict]

InitClients ==
    /\ hh_endpoint = <<>>
    /\ hh_params = EmptyDict
    /\ hh_arg = NoneArg
    /\ hh_request = NoRequest
    /\ hh_response = NoResponse
    /\ hh_outcome = NoOutcome
    /\ vac_endpoint = <<"/vacancies">>
    /\ vac_params = [text |-> <<>>, page |-> 0, per_page |-> 100]
    /\ vac_vacancies = <<>>
    /\ vac_pc = "idle"
    /\ vac_args = [employer_id |-> <<>>, max_pages |-> 0]
    /\ vac_exchanges = <<>>
    /\ vac_outcome = NoOutcome
    /\ vac_prev = [tag |-> "none", employer_id |-> <<>>, left_items |-> FALSE]
    /\ emp_endpoint = <<"/employers">>
    /\ emp_params = EmptyDict
    /\ emp_employers = <<>>
    /\ emp_requests = <<>>
    /\ emp_response = NoResponse
    /\ emp_outcome = NoOutcome
    /\ emp_args = NoArgs
    /\ employer_endpoint = <<"/employers/">>
    /\ employer_params = EmptyDict
    /\ employer_employer = EmptyDict
    /\ employer_arg = <<>>
    /\ employer_prev = <<>>
    /\ employer_requests = <<>>
    /\ employer_response = NoResponse
    /\ employer_outcome = NoOutcome

InitDBManager ==
    /\ db_conn = NoConn
    /\ db_open = {}
    /\ db_call = DbCall("none", <<>>, NoFault, SqlNull, FALSE)
    /\ db_executed = <<>>
    /\ db_outcome = DbNoOutcome

\* the API clients, beside a DBManager over an empty table
InitCaller == kept = NotKept

InitLoad ==
    /\ load_pc = "idle"
    /\ load_employers_data = <<>>
    /\ load_vacancies_data = <<>>
    /\ load_log = <<>>
    /\ load_outcome = LoadNoOutcome

Init ==
    /\ InitClients
    /\ InitDBManager
    /\ InitLoad
    /\ InitCaller
    /\ db_employers = {}
    /\ db_vacancies = {}

\* a DBManager over any content of the tables that the schema admits
InitDB ==
    /\ InitClients
    /\ InitDBManager
    /\ InitLoad
    /\ InitCaller
    /\ db_employers \in SUBSET EmployerRows
    /\ db_vacancies \in SUBSET VacancyRows
    /\ ForeignKeysHold(db_employers, db_vacancies)

NextConnect == HHConnect

SpecConnect == Init /\ [][NextConnect]_vars

NextVac == VacCall \/ VacPage \/ VacReturn

NextEmp == EmpSearch \/ EmpTop

SpecEmp == Init /\ [][NextEmp]_vars

NextEmployer == EmployerGet

SpecEmployer == Init /\ [][NextEmployer]_vars

NextLoad == LoadFetch \/ LoadEmployers \/ LoadVacancies

\* runs of filling_db_hh, one after another, on a database created empty
SpecLoad == Init /\ [][NextLoad]_vars

\* a behaviour uses one client instance: the vacancies client, or the employers
\* client, whichever is called first
ResultsVac == emp_args = NoArgs /\ (NextVac \/ VacKeep)

ResultsEmp == vac_pc = "idle" /\ vac_outcome = NoOutcome /\ (NextEmp \/ EmpKeep)

NextResults == ResultsVac \/ ResultsEmp

SpecResults == Init /\ [][NextResults]_vars

NextDB == DBConnect \/ DBClose \/ DBCount \/ DBAll \/ DBAvg \/ DBHigher \/ DBKeyword

SpecDB == InitDB /\ [][NextDB]_vars

\* a call that has started runs on: the interpreter keeps executing the loop
SpecVac == Init /\ [][NextVac]_vars /\ WF_vars(VacPage) /\ WF_vars(VacReturn)

---------------------------------------------------------------------------
(* Claims about get_vacancies_by_employer_id *)

Max(a, b) == IF a >= b THEN a ELSE b

\* the items a page request of the call obtained (none when it failed)
PageItems(x) ==
    IF x.outcome.tag = "return" THEN DictGet(x.outcome.value, "items", <<>>) ELSE <<>>

\* the request was answered by a page whose "items" is empty or missing
PageEmpty(x) == x.outcome.tag = "return" /\ PageItems(x) = <<>>

\* the request was answered by a page with items
PageFull(x) == x.outcome.tag = "return" /\ PageItems(x) # <<>>

C1_Requests ==
    LET k == Len(vac_exchanges)
        N == vac_args.max_pages
    IN  /\ k <= Max(N, 0)
        /\ \A i \in 1..k :
               LET q == vac_exchanges[i].request.params
               IN  /\ q["page"] = i - 1
                   /\ q["per_page"] = 100
                   /\ q["employer_id"] = vac_args.employer_id
                   /\ vac_exchanges[i].request.url = base_url \o <<"/vacancies">>
        /\ \A i \in 1..(k - 1) : ~PageEmpty(vac_exchanges[i])
        /\ (vac_pc = "idle" /\ \A i \in 1..k : PageFull(vac_exchanges[i]))
               => k = Max(N, 0)

\* C1: one call issues the page requests 0, 1, ..., k-1 in that order, with
\* k <= max(max_pages, 0), each carrying per_page = 100 and the employer id of
\* the call; it issues no request after the first page whose items is empty or
\* missing, exactly max_pages requests when every page it gets has items, and
\* the call always ends.
C1_PageRequests == []C1_Requests /\ (vac_pc = "loop" ~> vac_pc = "idle")

\* a call that fetched max_pages >= 2 pages, all with items, and returned
C1_Witness ==
    /\ vac_pc = "idle"
    /\ vac_outcome.tag = "return"
    /\ vac_args.max_pages >= 2
    /\ Len(vac_exchanges) = vac_args.max_pages
    /\ \A i \in 1..Len(vac_exchanges) : PageFull(vac_exchanges[i])

\* C2: the sequence a successful call returns is the concatenation, in page
\* order and then in-page order and without deduplication, of the items of
\* the pages that call fetched, whatever calls came before on the instance.
C2_ResultIsConcatenation ==
    (vac_pc = "idle" /\ vac_outcome.tag = "return") =>
        vac_outcome.value =
            Flatten([i \in 1..Len(vac_exchanges) |-> PageItems(vac_exchanges[i])])

\* a call for another employer, after a call that failed part-way and left
\* items behind, returns two pages that repeat an item
C2_Witness ==
    /\ vac_pc = "idle"
    /\ vac_outcome.tag = "return"
    /\ vac_prev.tag = "raise"
    /\ vac_prev.left_items
    /\ vac_prev.employer_id # vac_args.employer_id
    /\ vac_outcome.value = <<1, 2, 2, 1>>

---------------------------------------------------------------------------
(* Claims about connect *)

\* a connect call has been made on the base-class instance
Connected == hh_outcome.tag # "none"

\* the URL of the endpoint the last connect was asked for: the one passed, or
\* the configured one when none was passed
AskedUrl == base_url \o (IF hh_arg.given THEN hh_arg.value ELSE hh_endpoint)

\* C3: for a response with status 200 whose decoded body is an object, connect
\* returns a mapping equal to that body, key for key and value for value, with
\* the configured endpoint and with an endpoint passed explicitly.
C3_ReturnsBody ==
    (/\ Connected
     /\ ~hh_response.raised
     /\ hh_response.status_code = 200
     /\ hh_response.json.type = "dict")
        => /\ hh_outcome.tag = "return"
           /\ DOMAIN hh_outcome.value = DOMAIN hh_response.json.value
           /\ \A k \in DOMAIN hh_response.json.value :
                  hh_outcome.value[k] = hh_response.json.value[k]
           /\ hh_request.url = AskedUrl
           /\ hh_request.params = hh_params

\* an object with two keys came back from an explicitly passed endpoint
C3_Witness ==
    /\ hh_outcome.tag = "return"
    /\ hh_arg.given
    /\ hh_request.url = base_url \o <<"/employers/", "1">>
    /\ DOMAIN hh_outcome.value = {"items", "error"}
    /\ hh_outcome.value["items"] = <<2, 1>>

\* C4: for a response whose status is not 200, connect raises APIError whose
\* message contains the status code and the body text, whatever the body is,
\* and returns nothing.
C4_StatusError ==
    (Connected /\ ~hh_response.raised /\ hh_response.status_code # 200)
        => /\ hh_outcome.tag = "raise"
           /\ hh_outcome.exc = "APIError"
           /\ Contains(hh_outcome.message, Digits(hh_response.status_code))
           /\ Contains(hh_outcome.message, hh_response.text)
           /\ hh_outcome.value = EmptyDict

\* a 400 whose body is a JSON object ended in APIError
C4_Witness ==
    /\ Connected
    /\ ~hh_response.raised
    /\ hh_response.status_code = 400
    /\ hh_response.text = <<"B", "a", "d">>
    /\ hh_response.json.type = "dict"
    /\ hh_outcome.exc = "APIError"

\* C5: when the request fails in transport, connect raises APIError carrying
\* the transport message, and no other exception type.
C5_TransportError ==
    (Connected /\ hh_response.raised)
        => /\ hh_outcome.tag = "raise"
           /\ hh_outcome.exc = "APIError"
           /\ Contains(hh_outcome.message, hh_response.exc_msg)

\* a transport failure ended in APIError
C5_Witness ==
    /\ Connected
    /\ hh_response.raised
    /\ hh_response.exc_msg = <<"Network", " ", "error">>
    /\ hh_outcome.exc = "APIError"

\* C6: when the status is 200 and the decoded payload is not an object,
\* connect raises ValueError ("not a dict"), not APIError: the handler around
\* the request does not convert it.
C6_NotAMapping ==
    (/\ Connected
     /\ ~hh_response.raised
     /\ hh_response.status_code = 200
     /\ hh_response.json.type \in {"str", "list"})
        => /\ hh_outcome.tag = "raise"
           /\ hh_outcome.exc = "ValueError"
           /\ hh_outcome.message = <<"API returns not a dict">>

\* a 200 with a list payload ended in ValueError
C6_Witness ==
    /\ Connected
    /\ hh_response.status_code = 200
    /\ hh_response.json.type = "list"
    /\ hh_outcome.exc = "ValueError"

---------------------------------------------------------------------------
(* Claims about get_top_employers *)

\* the last call was get_top_employers with an argument the checks refuse
TopRefused(args) ==
    /\ args.op = "top"
    /\ (~is_int(args.top_n) \/ args.top_n.value > 100)

C7_Refusal ==
    TopRefused(emp_args') =>
        /\ emp_outcome'.tag = "raise"
        /\ ~is_int(emp_args'.top_n) => emp_outcome'.exc = "TypeError"
        /\ (is_int(emp_args'.top_n) /\ emp_args'.top_n.value > 100)
               => emp_outcome'.exc = "ValueError"
        /\ emp_requests' = <<>>
        /\ emp_params' = emp_params
        /\ emp_employers' = emp_employers

\* C7: get_top_employers raises TypeError when top_n is not an integer and
\* ValueError when it is an integer above 100; in both cases no HTTP request
\* is issued and the query parameters and the stored employer list stay as
\* they were before the call.
C7_InvalidTopN == [][C7_Refusal]_vars

\* a refused call on an instance that holds parameters and employers of an
\* earlier search
C7_Witness ==
    /\ TopRefused(emp_args)
    /\ emp_outcome.exc = "ValueError"
    /\ "text" \in DOMAIN emp_params
    /\ emp_employers = <<1, 2>>

\* the last call was get_top_employers with an integer top_n <= 100 and the
\* server answered it with an object
TopAnswered ==
    /\ emp_args.op = "top"
    /\ is_int(emp_args.top_n)
    /\ emp_args.top_n.value <= 100
    /\ ~emp_response.raised
    /\ emp_response.status_code = 200
    /\ emp_response.json.type = "dict"

\* C8: for every integer top_n <= 100, zero and negative values included, and
\* every successful response, get_top_employers returns at most top_n items.
C8_AtMostTopN ==
    TopAnswered =>
        /\ emp_outcome.tag = "return"
        /\ Len(emp_outcome.value) <= emp_args.top_n.value

---------------------------------------------------------------------------
(* Claims about the read operations of DBManager *)

\* what a read operation returns in place of a result it could not get
Sentinel(op) == IF op = "get_avg_salary" THEN DbReturnNumber(Zero) ELSE DbReturnRows(<<>>)

\* the last call was a read operation that met a data-access failure: the
\* connection could not be opened, or the statement failed
ReadFailed ==
    /\ db_call.op \in ReadOps
    /\ (db_call.fault.open_failed \/ db_call.fault.execute_failed)

\* C9: each of the five read operations, on every data-access failure (opening
\* the connection or executing the statement), raises nothing and returns its
\* sentinel: an empty sequence, or 0.0 for get_avg_salary.
C9_FailureGivesSentinel == ReadFailed => db_outcome = Sentinel(db_call.op)

\* the last call was get_avg_salary and it fetched the aggregate
AvgFetched ==
    /\ db_call.op = "get_avg_salary"
    /\ ~db_call.fault.open_failed
    /\ ~db_call.fault.execute_failed

\* the fetched value is a text that float() refuses
NotANumber(v) == v.kind = "text" /\ ~ParseFloat(v.text).ok

\* no stored vacancy has both salary bounds
NoMidpoint == \A r \in db_vacancies : r.salary_from = Null \/ r.salary_to = Null

Blank(t) == \A i \in 1..Len(t) : IsSpace(t[i])

C11_BlankStep ==
    (db_call'.op = "get_vacancies_with_keyword" /\ Blank(db_call'.keywords)) =>
        /\ db_outcome' = DbReturnRows(<<>>)
        /\ db_executed' = <<>>
        /\ ~db_call'.fault.open_failed
        /\ db_conn' = db_conn
        /\ db_open' = db_open

\* C11: for keywords that are empty or white space only,
\* get_vacancies_with_keyword returns an empty sequence without opening a
\* connection or executing a statement, and leaves the connection state of the
\* instance as it was: unconnected stays unconnected, a connection opened with
\* connect() stays open.
C11_BlankKeywords == [][C11_BlankStep]_vars

\* white space only was passed while the instance held a connection, which is
\* still held and open
C11_Witness ==
    /\ db_call.op = "get_vacancies_with_keyword"
    /\ db_call.keywords = <<" ", "\t">>
    /\ db_call.held
    /\ db_conn # NoConn
    /\ db_open = {db_conn}
    /\ db_outcome = DbReturnRows(<<>>)

---------------------------------------------------------------------------
(* Claims about the statements of DBManager *)

\* the last call was op and its statement ran on an open connection
Answered(op) ==
    /\ db_call.op = op
    /\ ~db_call.fault.open_failed
    /\ ~db_call.fault.execute_failed

\* the elements of a sequence
Range(s) == {s[i] : i \in 1..Len(s)}

\* the sequence holds each row of the set once and nothing else
HoldsExactly(s, rows) == Range(s) = rows /\ Len(s) = Cardinality(rows)

\* the name holds the token as a substring, letter case aside
HasToken(name, token) == Contains(Lower(name), Lower(token))

\* C12: for every stored set of vacancies and every non-blank keywords string,
\* over an alphabet with letters of both cases and the characters % and _,
\* get_vacancies_with_keyword returns exactly the vacancies whose name holds
\* every white-space separated token as a literal substring, letter case aside.
C12_LiteralTokens ==
    (Answered("get_vacancies_with_keyword") /\ ~Blank(db_call.keywords)) =>
        HoldsExactly(db_outcome.rows,
                     {r \in db_vacancies :
                         \A i \in 1..Len(Split(db_call.keywords)) :
                             HasToken(r.vacancy_name, Split(db_call.keywords)[i])})

\* the stored vacancies that reference the employer
VacanciesOf(e) == {v \in db_vacancies : v.employer_id = Val(e.employer_id)}

\* C13: for every content of the tables, get_companies_and_vacancies_count
\* returns exactly one (employer_name, vacancy_count) pair per stored employer,
\* the count being the number of stored vacancies that reference the employer,
\* 0 for an employer without vacancies.
C13_CountPerEmployer ==
    Answered("get_companies_and_vacancies_count") =>
        /\ Len(db_outcome.rows) = Cardinality(db_employers)
        /\ HoldsExactly(db_outcome.rows,
                        {[employer_name |-> e.employer_name,
                          count_vacancies |-> Cardinality(VacanciesOf(e))] :
                            e \in db_employers})

\* an employer with two vacancies and one with none were counted, beside a
\* vacancy that references no employer
C13_Witness ==
    /\ Answered("get_companies_and_vacancies_count")
    /\ \E i, j \in 1..Len(db_outcome.rows) :
           /\ db_outcome.rows[i].count_vacancies = 2
           /\ db_outcome.rows[j].count_vacancies = 0
    /\ \E v \in db_vacancies : v.employer_id = Null

\* the stored vacancies that have both salary bounds
WithBothBounds == {r \in db_vacancies : r.salary_from # Null /\ r.salary_to # Null}

\* the last call was get_avg_salary and it fetched the aggregate of the table
AvgComputed ==
    /\ Answered("get_avg_salary")
    /\ db_call.fetched = AvgAggregate(db_vacancies)
    /\ WithBothBounds # {}

\* C14: get_avg_salary returns the arithmetic mean, over the vacancies having
\* both bounds, of the midpoint (salary_from + salary_to) / 2; a single vacancy
\* (a, b) yields (a + b) / 2.  The mean of the midpoints is the sum of all the
\* bounds over twice the number of vacancies.
C14_MeanOfMidpoints ==
    AvgComputed =>
        /\ db_outcome.tag = "return"
        /\ db_outcome.number.num * 2 * Cardinality(WithBothBounds)
               = SumBounds(WithBothBounds) * db_outcome.number.den

\* what get_avg_salary reports for the stored vacancies
ReportedAverage == avg_convert(AvgAggregate(db_vacancies)).number

\* C15: get_vacancies_with_higher_salary returns exactly the vacancies whose
\* midpoint (salary_from + salary_to) / 2 is strictly greater than the average
\* that get_avg_salary reports for the same table; a vacancy missing a bound is
\* never returned.
C15_AboveReportedAverage ==
    Answered("get_vacancies_with_higher_salary") =>
        HoldsExactly(db_outcome.rows,
                     {r \in WithBothBounds :
                         (r.salary_from[1] + r.salary_to[1]) * ReportedAverage.den
                             > 2 * ReportedAverage.num})

\* the employer is named in some row
EmployerShown(e) ==
    \E i \in 1..Len(db_outcome.rows) :
        db_outcome.rows[i].employer_name = Val(e.employer_name)

\* the vacancy is shown in some row
VacancyShown(v) ==
    \E i \in 1..Len(db_outcome.rows) : db_outcome.rows[i].vacancy_url = v.vacancy_url

\* C16 as stated: get_all_vacancies returns the full join of vacancies to
\* employers, so every stored vacancy and every stored employer is represented
\* in the result, for every table content.
C16_FullJoin ==
    Answered("get_all_vacancies") =>
        /\ \A v \in db_vacancies : VacancyShown(v)
        /\ \A e \in db_employers : EmployerShown(e)

\* the name of the employer a vacancy references, NULL if it references none
EmployerNameOf(v) ==
    IF \E e \in db_employers : v.employer_id = Val(e.employer_id)
    THEN Val((CHOOSE e \in db_employers : v.employer_id = Val(e.employer_id)).employer_name)
    ELSE Null

\* C16, amended: get_all_vacancies returns one row (employer_name, vacancy_name,
\* salary_from, salary_to, vacancy_url) per stored vacancy and no other row;
\* employer_name is the name of the employer the vacancy references, NULL if it
\* references none.  An employer that no vacancy references is not represented.
C16_RowPerVacancy ==
    Answered("get_all_vacancies") =>
        /\ Len(db_outcome.rows) = Cardinality(db_vacancies)
        /\ Range(db_outcome.rows) =
               {[employer_name |-> EmployerNameOf(v),
                 vacancy_name |-> v.vacancy_name,
                 salary_from |-> v.salary_from,
                 salary_to |-> v.salary_to,
                 vacancy_url |-> v.vacancy_url] : v \in db_vacancies}
        /\ \A e \in db_employers : VacanciesOf(e) = {} => ~EmployerShown(e)

\* a vacancy with an employer and one without were listed, while an employer
\* without vacancies is stored
C16_Witness ==
    /\ Answered("get_all_vacancies")
    /\ \E i, j \in 1..Len(db_outcome.rows) :
           /\ db_outcome.rows[i].employer_name = Null
           /\ db_outcome.rows[j].employer_name # Null
    /\ \E e \in db_employers : VacanciesOf(e) = {}

---------------------------------------------------------------------------
(* Claims about the connection of DBManager *)

C17_ConnectStep ==
    db_call'.op = "connect" =>
        /\ db_outcome' = DbReturnNone
        /\ db_conn # NoConn => (db_conn' = db_conn /\ db_open' = db_open)
        /\ (db_conn = NoConn /\ ~db_call'.fault.open_failed) =>
               /\ db_conn' # NoConn
               /\ db_conn' \notin db_open
               /\ db_open' = db_open \cup {db_conn'}
        /\ (db_conn = NoConn /\ db_call'.fault.open_failed) =>
               (db_conn' = NoConn /\ db_open' = db_open)

C17_CloseStep ==
    db_call'.op = "close" =>
        /\ db_conn' = NoConn
        /\ db_open' = db_open \ {db_conn}

\* the connections the instance has open: the one it holds, or none
C17_AtMostOne ==
    /\ Cardinality(db_open) <= 1
    /\ db_open = IF db_conn = NoConn THEN {} ELSE {db_conn}

\* C17: connect() on an instance that holds a connection opens nothing and
\* keeps the handle; on one that holds none it holds exactly the connection
\* opened, or, if opening fails, stays unset without raising.  close() leaves
\* the handle unset.  Hence the instance holds at most one open connection.
C17_ConnectClose == []C17_AtMostOne /\ [][C17_ConnectStep /\ C17_CloseStep]_vars

\* connect() was called on an instance that held a connection, which it still holds
C17_Witness ==
    /\ db_call.op = "connect"
    /\ db_call.held
    /\ db_conn # NoConn
    /\ db_open = {db_conn}

C19_ReadStep ==
    (/\ db_call'.op \in ReadOps
     /\ ~(db_call'.op = "get_vacancies_with_keyword" /\ Blank(db_call'.keywords))) =>
        /\ db_conn' = NoConn
        /\ db_open' = {}
        /\ db_conn \notin db_open'

\* C19: each read operation that reaches the database closes the connection
\* in its cleanup step on every outcome (rows, no rows, statement failure):
\* when it returns or raises, the handle is unset and every connection it used
\* is closed, also when the caller had opened the connection with connect()
\* before; so no connection is left open after such operations.
C19_ReadCloses == [][C19_ReadStep]_vars

\* a statement failed on a connection the caller had opened: nothing is open
C19_Witness ==
    /\ db_call.op \in ReadOps
    /\ db_call.held
    /\ db_call.fault.execute_failed
    /\ db_conn = NoConn
    /\ db_open = {}

---------------------------------------------------------------------------
(* Claims about get_employer_by_id *)

C18_Step ==
    /\ Len(employer_requests') = 1
    /\ employer_requests'[1].url = base_url \o <<"/employers/">> \o employer_arg'
    /\ employer_endpoint' = employer_endpoint
    /\ employer_endpoint' = <<"/employers/">>
    /\ (/\ ~employer_response'.raised
        /\ employer_response'.status_code = 200
        /\ employer_response'.json.type = "dict")
           => /\ employer_outcome' = Return(employer_response'.json.value)
              /\ employer_employer' = employer_response'.json.value

\* C18: over any sequence of get_employer_by_id calls on one instance, each
\* call issues exactly one request, to '/employers/' followed by the id of that
\* call only; the endpoint of the instance is not modified, so the ids of
\* earlier calls do not reach later URLs; the call returns the response mapping.
C18_EndpointPerCall == [][C18_Step]_vars

\* a call for employer 1 after a call for employer 78 returned the mapping
C18_Witness ==
    /\ employer_prev = <<"7", "8">>
    /\ employer_arg = <<"1">>
    /\ employer_requests = <<[url |-> base_url \o <<"/employers/", "1">>,
                              headers |-> headers, params |-> EmptyDict]>>
    /\ employer_outcome.tag = "return"
    /\ employer_outcome.value = [items |-> <<1, 2>>]

---------------------------------------------------------------------------
(* Claims about retries in the API client *)

\* the last page request of the call failed
LastPageFailed ==
    vac_exchanges # <<>> /\ vac_exchanges[Len(vac_exchanges)].outcome.tag = "raise"

C20_FailureIsTerminal ==
    \* no page is requested twice, and only the last request can have failed
    /\ \A i, j \in 1..Len(vac_exchanges) :
           vac_exchanges[i].request.params["page"] = vac_exchanges[j].request.params["page"]
               => i = j
    /\ \A i \in 1..(Len(vac_exchanges) - 1) : vac_exchanges[i].outcome.tag = "return"
    \* a failure ends the call with that error and without a result
    /\ LastPageFailed =>
           /\ vac_pc = "idle"
           /\ vac_outcome = AsListOutcome(vac_exchanges[Len(vac_exchanges)].outcome)
           /\ vac_outcome.tag = "raise"
           /\ vac_outcome.value = <<>>

\* after a failure the call issues no request: the next request is the first
\* of another call
C20_NoRequestAfterFailure ==
    (LastPageFailed /\ vac_exchanges' # vac_exchanges) => vac_exchanges' = <<>>

\* C20: there are no retries in the API client: a connect call issues one
\* request whatever its outcome, and when a page request fails inside
\* get_vacancies_by_employer_id the error reaches the caller at once, the call
\* issues no further page request and returns no partial result.
C20_NoRetries == []C20_FailureIsTerminal /\ [][C20_NoRequestAfterFailure]_vars

\* the second page request of a call for three pages failed after a page with
\* items; the call ended with the error
C20_Witness ==
    /\ vac_pc = "idle"
    /\ Len(vac_exchanges) = 2
    /\ vac_args.max_pages > 2
    /\ PageFull(vac_exchanges[1])
    /\ LastPageFailed
    /\ vac_vacancies # <<>>
    /\ vac_outcome.tag = "raise"

---------------------------------------------------------------------------
(* Claims about the batch load *)

\* the places of the log where the event stands
Places(table, event) ==
    {i \in 1..Len(load_log) : load_log[i] = LoadEvent(table, event)}

\* C21 as stated: the employer batch is inserted and committed before any
\* vacancy insert is attempted, and after any run of the load, failed batches
\* included, every stored vacancy references a stored employer.
C21_CommittedEmployersFirst ==
    /\ \A i \in Places("vacancies", "insert") :
           \E j \in Places("employers", "commit") : j < i
    /\ \A v \in db_vacancies :
           \E e \in db_employers : v.employer_id = Val(e.employer_id)

\* C21, amended: no vacancy insert is attempted before the employer batch has
\* ended, committed or not: the inserts of the employer batch, its commit if it
\* got there, and its close all precede every vacancy insert.  After any run,
\* failed batches included, every stored vacancy that names an employer
\* references a stored employer; a vacancy without an employer id is stored
\* with a NULL reference.
C21_EmployersBatchFirst ==
    /\ \A i \in Places("vacancies", "insert") \cup Places("vacancies", "commit") :
           /\ \E j \in Places("employers", "close") : j < i
           /\ \A j \in 1..Len(load_log) : load_log[j].table = "employers" => j < i
    /\ ForeignKeysHold(db_employers, db_vacancies)

\* a run whose employer batch failed on an insert went on to commit vacancies
C21_Witness ==
    /\ load_pc = "idle"
    /\ load_outcome = LoadReturn
    /\ Places("employers", "insert") # {}
    /\ Places("employers", "commit") = {}
    /\ Places("vacancies", "commit") # {}
    /\ \E v \in db_vacancies : v.employer_id # Null

\* the step is the batch of the table: safe_data_to_employers or _to_vacancies
BatchStep(table) ==
    /\ load_pc = table
    /\ load_pc' # table

\* the batch of the step got to its commit
BatchCommitted(table) ==
    /\ load_log' # load_log
    /\ Len(load_log') >= 2
    /\ load_log'[Len(load_log') - 1] = LoadEvent(table, "commit")

\* two records of the batch carry the same id
DuplicateIds(data) == \E i, j \in 1..Len(data) : i # j /\ data[i].id = data[j].id

\* a vacancy of the batch names an employer that is not stored
AbsentEmployer(data) ==
    \E i \in 1..Len(data) :
        /\ "id" \in DOMAIN data[i].employer
        /\ \A e \in db_employers : e.employer_id # data[i].employer.id

\* the table holds a row for each record of the batch
AllStored(data, table) == \A i \in 1..Len(data) : \E row \in table : row = data[i].id

C22_EmployersStep ==
    BatchStep("employers") =>
        /\ db_vacancies' = db_vacancies
        /\ db_employers \subseteq db_employers'
        /\ IF BatchCommitted("employers")
           THEN /\ AllStored(load_employers_data, {e.employer_id : e \in db_employers'})
                /\ Cardinality(db_employers')
                       = Cardinality(db_employers) + Len(load_employers_data)
           ELSE db_employers' = db_employers
        /\ DuplicateIds(load_employers_data) => db_employers' = db_employers

C22_VacanciesStep ==
    BatchStep("vacancies") =>
        /\ db_employers' = db_employers
        /\ db_vacancies \subseteq db_vacancies'
        /\ IF BatchCommitted("vacancies")
           THEN /\ AllStored(load_vacancies_data, {v.vacancy_id : v \in db_vacancies'})
                /\ Cardinality(db_vacancies')
                       = Cardinality(db_vacancies) + Len(load_vacancies_data)
           ELSE db_vacancies' = db_vacancies
        /\ (DuplicateIds(load_vacancies_data) \/ AbsentEmployer(load_vacancies_data))
               => db_vacancies' = db_vacancies

\* C22: each batch insert is all-or-nothing: the rows are committed once after
\* the whole loop, so when an insert of the batch fails (a duplicate id in the
\* batch, a vacancy whose employer is absent) no row of that batch is
\* persisted, while the rows committed by an earlier batch remain.
C22_AllOrNothing == [][C22_EmployersStep /\ C22_VacanciesStep]_vars

\* a vacancy batch failed on its second insert after the employer batch had
\* been committed: the employers are stored, the first vacancy is not
C22_Witness ==
    /\ load_pc = "idle"
    /\ Cardinality(Places("vacancies", "insert")) = 2
    /\ Places("vacancies", "commit") = {}
    /\ Places("employers", "commit") # {}
    /\ Places("employers", "insert") # {}
    /\ \A i \in 1..Len(load_employers_data) :
           \E e \in db_employers : e.employer_id = load_employers_data[i].id
    /\ \A v \in db_vacancies : v.vacancy_id # load_vacancies_data[1].id

---------------------------------------------------------------------------
(* Claims about the results of the list operations *)

\* C23: a result sequence returned by one call of get_vacancies_by_employer_id,
\* search_employers_by_keyword or get_top_employers keeps the contents it had
\* when it was returned, whatever such operation is called later on the same
\* client instance.
C23_ResultKeepsContents == kept.ref # "none" => Contents(kept.ref) = kept.was

=============================================================================
